---- MODULE Spec2Model ----
(***************************************************************************)
(* A model of a2d: the sprite batch (src/src/g2d/sprite/batch.rs), the     *)
(* graphics context (src/src/g2d/g2d.rs) and the Rect geometry primitive   *)
(* (src/src/geo/rect.rs).                                                  *)
(*                                                                         *)
(* GPU buffers are created with their data (create_buffer_with_data) and   *)
(* are never written afterwards, so a buffer is modelled by its content.   *)
(* A panic ends the program: no action is enabled once `panicked` is set.  *)
(***************************************************************************)
EXTENDS Integers, Sequences, FiniteSets

\* ---------------------------------------------------------------- bounds
\* Longest instance sequence a batch is grown to.
MaxLen == 2
\* Distinct Instance values (an Instance is an opaque record here).
NumInstances == 2
\* Batches the caller owns; batch b is created over sheet b.
NumBatches == 2
\* Non-zero translation offsets the caller sets.
MaxTrans == 1
\* Scales the caller sets: [s, s + 1] for s in 1..MaxScale, beside [1, 1].
MaxScale == 1
\* Physical window sizes: 4d x 3d for d in 1..MaxDim.
MaxDim == 2
\* Longest batch list passed to one render call.
MaxBatchList == 2
\* The whole part of the largest coordinate a Rect is built from.
MaxWhole == 2
\* Threads a context is let to spawn before ensure_polling is held back.
MaxThreads == 2
\* Shutdown signals that wait in one channel at a time.
MaxSignals == 2

\* ------------------------------------------------------ program constants
\* render_pass.draw(0..6, ...): the vertices of one sprite quad.
VERTICES_PER_SPRITE == 6

Instances == 1..NumInstances
BatchIds == 1..NumBatches
Indices == 0..MaxLen
ZeroTranslation == <<0, 0>>
Translations == {<<t, 2 * t>> : t \in 0..MaxTrans}
IdentityScale == <<1, 1>>
Scales == {IdentityScale} \cup {<<s, s + 1>> : s \in 1..MaxScale}
Sizes == {[width |-> 4 * d, height |-> 3 * d] : d \in 1..MaxDim}
InitialSize == [width |-> 4, height |-> 3]
BatchLists == UNION {[1..n -> BatchIds] : n \in 0..MaxBatchList}

VARIABLES
    batches,              \* b -> SpriteBatch {sheet, instances}
    translation,          \* b -> the batch's translation offset
    scale,                \* Graphics2D.scale
    scale_uniform_buffer, \* Graphics2D.scale_uniform_buffer (its content)
    sc_desc,              \* Graphics2D.sc_desc (width, height)
    swap_chain,           \* Graphics2D.swap_chain: the descriptor it was built from
    render_pipeline,      \* Graphics2D.render_pipeline and the bind group layouts
    window_size,          \* the physical size of the window's surface
    frame,                \* the command buffer of the latest queue.submit of render
    panicked,             \* "none", or the panic that ended the program
    hist,                 \* the latest call or thread step: op, arguments, pre-state, result
    appended,             \* b -> the instances added since new, while only added to
    latest_set_scale,     \* <<>>, or <<s>> for the latest set_scale(s)
    rect,                 \* the Rect construction under test
    poll,                 \* Graphics2D.poll_thread, the threads spawned, their channels
    queue,                \* the submissions to the wgpu queue, in submission order
    sheets                \* the SpriteSheets from_bytes has returned

vars == <<batches, translation, scale, scale_uniform_buffer, sc_desc, swap_chain,
          render_pipeline, window_size, frame, panicked, hist, appended,
          latest_set_scale, rect, poll, queue, sheets>>

batchVars == <<batches, translation, appended>>
ctxVars == <<scale, scale_uniform_buffer, sc_desc, swap_chain, render_pipeline,
             latest_set_scale>>
gpuVars == <<queue, sheets>>

\* --------------------------------------------------------- Vec<Instance>
Front(s) == SubSeq(s, 1, Len(s) - 1)

\* A method's outcome: the receiver afterwards, the value returned (an
\* Option is <<>> or <<v>>), and whether the call panicked.
Outcome(self, ret, panic) == [self |-> self, ret |-> ret, panic |-> panic]

\* ----------------------------------------------------------- SpriteBatch
SpriteBatch_new(sheet) == [sheet |-> sheet, instances |-> <<>>]

SpriteBatch_sheet(self) == self.sheet

SpriteBatch_instances(self) == self.instances

\* &self.instances[i]: the slice index panics when i >= len.
SpriteBatch_get(self, i) ==
    IF i < Len(self.instances)
    THEN Outcome(self, <<self.instances[i + 1]>>, FALSE)
    ELSE Outcome(self, <<>>, TRUE)

\* &mut self.instances[i], through which the caller then stores `inst`.
SpriteBatch_get_mut(self, i, inst) ==
    IF i < Len(self.instances)
    THEN Outcome([self EXCEPT !.instances[i + 1] = inst], <<self.instances[i + 1]>>, FALSE)
    ELSE Outcome(self, <<>>, TRUE)

SpriteBatch_set_grows(self, i, inst) ==
    IF i < Len(self.instances)
    THEN Outcome([self EXCEPT !.instances[i + 1] = inst], <<>>, FALSE)
    ELSE Outcome([self EXCEPT !.instances = Append(@, inst)], <<>>, FALSE)

SpriteBatch_set(self, i, inst) ==
    IF i < Len(self.instances)
    THEN Outcome([self EXCEPT !.instances[i + 1] = inst], <<>>, FALSE)
    ELSE Outcome(self, <<>>, TRUE)

SpriteBatch_add_front(self, inst) ==
    Outcome([self EXCEPT !.instances = <<inst>> \o @], <<>>, FALSE)

SpriteBatch_add(self, inst) ==
    Outcome([self EXCEPT !.instances = Append(@, inst)], <<>>, FALSE)

SpriteBatch_last(self) ==
    IF self.instances = <<>>
    THEN Outcome(self, <<>>, FALSE)
    ELSE Outcome(self, <<self.instances[Len(self.instances)]>>, FALSE)

SpriteBatch_pop_first(self) ==
    Outcome([self EXCEPT !.instances = IF @ = <<>> THEN <<>> ELSE Tail(@)], <<>>, FALSE)

\* self.instances.pop(): Vec::pop gives None on an empty Vec; the result is dropped.
SpriteBatch_pop(self) ==
    Outcome([self EXCEPT !.instances = IF @ = <<>> THEN <<>> ELSE Front(@)], <<>>, FALSE)

\* The translation accessor and mutator of a batch.
SpriteBatch_translation(b) == translation[b]

SpriteBatch_set_translation(b, t) == [translation EXCEPT ![b] = t]

\* ------------------------------------------------ SpriteSheet, the queue
\* A submission to the queue: the command buffer of from_bytes that copies
\* the pixels of a sheet into its texture, or the command buffer of render
\* with the sheets its draws bind; done once the device has processed it.
Upload(s, done) == [kind |-> "upload", sheets |-> {s}, done |-> done]

RenderPass(cmd) ==
    [kind |-> "render",
     sheets |-> {cmd.draws[j].bind_group_0 : j \in 1..Len(cmd.draws)},
     done |-> FALSE]

\* queue.submit(&[cmd]). The model keeps every upload and the latest render
\* submission: an earlier render submission is forgotten when render
\* submits the next one.
queue_submit(q, cmd) ==
    Append(IF cmd.kind = "render" THEN SelectSeq(q, LAMBDA e : e.kind # "render") ELSE q,
           cmd)

SpriteSheet_from_bytes_without_submit(q, s, decoded) ==
    IF decoded THEN Outcome(q, <<s>>, FALSE) ELSE Outcome(q, <<>>, TRUE)

\* SpriteSheet::from_bytes of the image of sheet s: panics when the bytes
\* do not decode to an RGBA8 image; else submits the copy of the pixels to
\* the texture, then builds the bind group and returns the sheet.
SpriteSheet_from_bytes(q, s, decoded) ==
    IF decoded
    THEN Outcome(queue_submit(q, Upload(s, FALSE)), <<s>>, FALSE)
    ELSE Outcome(q, <<>>, TRUE)

\* Batch b has been created: SpriteBatch::new takes the Rc<SpriteSheet> of
\* its sheet, which from_bytes has returned.
Created(b) == SpriteBatch_sheet(batches[b]) \in sheets

\* ------------------------------------------------------------ call records
Call(op, b, i, x, pre, ret) ==
    [op |-> op, b |-> b, i |-> i, x |-> x, pre |-> pre, ret |-> ret]

Running == panicked = "none"

\* The ghost of the instances added to b: kept while b was only added to.
Tainted == [pure |-> FALSE, seq |-> <<>>]

\* One call of a SpriteBatch method on batch b with outcome `out`.
BatchCall(op, b, i, x, out, mutates) ==
    /\ batches' = [batches EXCEPT ![b] = out.self]
    /\ panicked' = IF out.panic THEN "index" ELSE "none"
    /\ hist' = Call(op, b, i, x, batches[b].instances, out.ret)
    /\ appended' = IF mutates /\ ~out.panic
                   THEN [appended EXCEPT ![b] = Tainted]
                   ELSE appended
    /\ UNCHANGED <<translation, ctxVars, window_size, frame, rect, poll, gpuVars>>

Do_add(b, inst) ==
    /\ Running
    /\ Created(b)
    /\ Len(batches[b].instances) < MaxLen
    /\ LET out == SpriteBatch_add(batches[b], inst) IN
        /\ batches' = [batches EXCEPT ![b] = out.self]
        /\ hist' = Call("add", b, 0, inst, batches[b].instances, out.ret)
    /\ appended' = [appended EXCEPT ![b] =
                       IF @.pure THEN [pure |-> TRUE, seq |-> Append(@.seq, inst)] ELSE @]
    /\ UNCHANGED <<translation, ctxVars, window_size, frame, panicked, rect, poll, gpuVars>>

Do_pop(b) ==
    /\ Running
    /\ Created(b)
    /\ BatchCall("pop", b, 0, 0, SpriteBatch_pop(batches[b]), TRUE)

Do_set(b, i, inst) ==
    /\ Running
    /\ Created(b)
    /\ BatchCall("set", b, i, inst, SpriteBatch_set(batches[b], i, inst), TRUE)

Do_get(b, i) ==
    /\ Running
    /\ Created(b)
    /\ BatchCall("get", b, i, 0, SpriteBatch_get(batches[b], i), FALSE)

Do_get_mut(b, i, inst) ==
    /\ Running
    /\ Created(b)
    /\ BatchCall("get_mut", b, i, inst, SpriteBatch_get_mut(batches[b], i, inst), TRUE)

Do_last(b) ==
    /\ Running
    /\ Created(b)
    /\ BatchCall("last", b, 0, 0, SpriteBatch_last(batches[b]), FALSE)

Do_set_translation(b, t) ==
    /\ Running
    /\ Created(b)
    /\ translation' = SpriteBatch_set_translation(b, t)
    /\ hist' = Call("set_translation", b, 0, t, batches[b].instances, <<>>)
    /\ UNCHANGED <<batches, appended, ctxVars, window_size, frame, panicked, rect, poll, gpuVars>>

\* ------------------------------------------------- sheets and the device
Do_from_bytes(s, decoded) ==
    /\ Running
    /\ s \notin sheets
    /\ LET out == SpriteSheet_from_bytes(queue, s, decoded) IN
        /\ queue' = out.self
        /\ sheets' = sheets \cup {out.ret[k] : k \in 1..Len(out.ret)}
        /\ panicked' = IF out.panic THEN "image_decode" ELSE "none"
        /\ hist' = Call("from_bytes", s, 0, <<>>, <<>>, <<>>)
    /\ UNCHANGED <<batchVars, ctxVars, window_size, frame, rect, poll>>

\* The device processes the submissions of the queue in submission order:
\* the first one not yet processed is.
QueueProcess ==
    /\ \E p \in 1..Len(queue) :
          /\ ~queue[p].done
          /\ \A q \in 1..(p - 1) : queue[q].done
          /\ queue' = [queue EXCEPT ![p].done = TRUE]
    /\ hist' = Call("queue_process", 0, 0, <<>>, <<>>, <<>>)
    /\ UNCHANGED <<batchVars, ctxVars, window_size, frame, panicked, rect, poll, sheets>>

\* ------------------------------------------------------ the poll thread
\* poll.poll_thread is Graphics2D.poll_thread: <<>> for None, <<t>> for the
\* handle and the sender of thread t. A thread is a record of
\*   pc        the call of its loop it is at or inside: "try_recv", "poll"
\*             (inside device.poll(Maintain::Wait)), "sleep", "yield_now",
\*             or "done" once it has left the loop;
\*   receiver  the messages waiting in its channel;
\*   sender    whether the sending half of its channel is still alive;
\*   signalled whether a shutdown signal was ever sent on its channel.
\* poll.alive is false once the context has been dropped.
NewThread == [pc |-> "try_recv", receiver |-> 0, sender |-> TRUE, signalled |-> FALSE]

Threads == 1..MaxThreads

Spawned(t) == t <= Len(poll.threads)

\* The position of every spawned thread.
PollPcs == [t \in 1..Len(poll.threads) |-> poll.threads[t].pc]

\* ensure_polling, when no thread is stored, clones the Arc<Device> for the
\* thread: a shared handle, beside the one the render thread uses.
poll_device_handle_exclusive == "exclusive"

poll_device_handle == "shared"

\* The render thread can use the device unless a thread holds it
\* exclusively inside device.poll.
DeviceAvailable ==
    \A t \in 1..Len(poll.threads) :
        poll.threads[t].pc = "poll" => poll_device_handle = "shared"

Graphics2D_ensure_polling_always_spawns(self, spawned) ==
    IF spawned
    THEN Outcome([self EXCEPT !.threads = Append(@, NewThread),
                              !.poll_thread = <<Len(self.threads) + 1>>],
                 "Ok", FALSE)
    ELSE Outcome(self, "Err", FALSE)

\* Graphics2D::ensure_polling; spawned is whether thread::Builder::spawn
\* succeeds when it is called.
Graphics2D_ensure_polling(self, spawned) ==
    IF self.poll_thread = <<>>
    THEN IF spawned
         THEN Outcome([self EXCEPT !.threads = Append(@, NewThread),
                                   !.poll_thread = <<Len(self.threads) + 1>>],
                      "Ok", FALSE)
         ELSE Outcome(self, "Err", FALSE)
    ELSE Outcome(self, "Ok", FALSE)

Do_ensure_polling(spawned) ==
    /\ Running
    /\ poll.alive
    /\ Len(poll.threads) < MaxThreads
    /\ LET out == Graphics2D_ensure_polling(poll, spawned) IN
        /\ poll' = out.self
        /\ hist' = Call("ensure_polling", 0, IF spawned THEN 1 ELSE 0, <<>>, <<>>,
                        <<[result |-> out.ret]>>)
    /\ UNCHANGED <<batchVars, ctxVars, window_size, frame, panicked, rect, gpuVars>>

\* The shutdown signal: sender.send(()) on the stored thread's channel. The
\* send fails, changing nothing, once the thread has dropped its receiver.
Graphics2D_shutdown(self) ==
    LET t == self.poll_thread[1] IN
    IF self.threads[t].pc = "done"
    THEN Outcome(self, "Err", FALSE)
    ELSE Outcome([self EXCEPT !.threads[t].receiver = @ + 1,
                              !.threads[t].signalled = TRUE],
                 "Ok", FALSE)

Do_shutdown ==
    /\ Running
    /\ poll.alive
    /\ poll.poll_thread # <<>>
    /\ poll.threads[poll.poll_thread[1]].receiver < MaxSignals
    /\ LET out == Graphics2D_shutdown(poll) IN
        /\ poll' = out.self
        /\ hist' = Call("shutdown", 0, 0, <<>>, <<>>, <<[result |-> out.ret]>>)
    /\ UNCHANGED <<batchVars, ctxVars, window_size, frame, panicked, rect, gpuVars>>

\* The context is dropped: with it the JoinHandle, which detaches the
\* thread, and the Sender, which disconnects the thread's channel.
Do_drop ==
    /\ Running
    /\ poll.alive
    /\ poll' = [poll EXCEPT !.alive = FALSE,
                            !.threads = [t \in 1..Len(poll.threads) |->
                                IF <<t>> = poll.poll_thread
                                THEN [poll.threads[t] EXCEPT !.sender = FALSE]
                                ELSE poll.threads[t]]]
    /\ hist' = Call("drop", 0, 0, <<>>, <<>>, <<>>)
    /\ UNCHANGED <<batchVars, ctxVars, window_size, frame, panicked, rect, gpuVars>>

poll_loop_try_recv_ignores_signal(th) ==
    IF th.receiver > 0
    THEN [th EXCEPT !.receiver = @ - 1, !.pc = "poll"]
    ELSE IF ~th.sender THEN [th EXCEPT !.pc = "done"] ELSE [th EXCEPT !.pc = "poll"]

poll_loop_try_recv_breaks_when_empty(th) ==
    IF th.receiver > 0
    THEN [th EXCEPT !.receiver = @ - 1, !.pc = "done"]
    ELSE [th EXCEPT !.pc = "done"]

\* match receiver.try_recv(): Ok(()) and Disconnected break out of the
\* loop, Empty goes on to device.poll.
poll_loop_try_recv(th) ==
    IF th.receiver > 0
    THEN [th EXCEPT !.receiver = @ - 1, !.pc = "done"]
    ELSE IF ~th.sender THEN [th EXCEPT !.pc = "done"] ELSE [th EXCEPT !.pc = "poll"]

\* One step of the loop of thread t: try_recv, then device.poll, sleep and
\* yield_now, each of which returns.
poll_loop(th) ==
    CASE th.pc = "try_recv" -> poll_loop_try_recv(th)
      [] th.pc = "poll" -> [th EXCEPT !.pc = "sleep"]
      [] th.pc = "sleep" -> [th EXCEPT !.pc = "yield_now"]
      [] th.pc = "yield_now" -> [th EXCEPT !.pc = "try_recv"]

PollThreadStep(t) ==
    /\ Spawned(t)
    /\ poll.threads[t].pc # "done"
    /\ poll' = [poll EXCEPT !.threads[t] = poll_loop(poll.threads[t])]
    /\ hist' = Call("poll_loop", t, 0, <<>>, <<>>, <<>>)
    /\ UNCHANGED <<batchVars, ctxVars, window_size, frame, panicked, rect, gpuVars>>

\* ------------------------------------------------------------ Graphics2D
\* The first loop of render: one BatchInfo per batch of the list that has
\* instances, in list order; a batch without instances is skipped before any
\* buffer or bind group is created for it.
RECURSIVE batches_with_instance_buffers_no_skip(_)
batches_with_instance_buffers_no_skip(list) ==
    IF list = <<>>
    THEN <<>>
    ELSE LET batch == Head(list) IN
         <<[batch |-> batch,
            instance_buffer |-> SpriteBatch_instances(batches[batch]),
            translation_bind_group |-> SpriteBatch_translation(batch)]>>
         \o batches_with_instance_buffers_no_skip(Tail(list))

RECURSIVE batches_with_instance_buffers_reversed(_)
batches_with_instance_buffers_reversed(list) ==
    IF list = <<>>
    THEN <<>>
    ELSE LET batch == Head(list) IN
         IF SpriteBatch_instances(batches[batch]) = <<>>
         THEN batches_with_instance_buffers_reversed(Tail(list))
         ELSE batches_with_instance_buffers_reversed(Tail(list)) \o
              <<[batch |-> batch,
                 instance_buffer |-> SpriteBatch_instances(batches[batch]),
                 translation_bind_group |-> SpriteBatch_translation(batch)]>>

RECURSIVE batches_with_instance_buffers_shared_translation(_)
batches_with_instance_buffers_shared_translation(list) ==
    IF list = <<>>
    THEN <<>>
    ELSE LET batch == Head(list) IN
         IF SpriteBatch_instances(batches[batch]) = <<>>
         THEN batches_with_instance_buffers_shared_translation(Tail(list))
         ELSE <<[batch |-> batch,
                 instance_buffer |-> SpriteBatch_instances(batches[batch]),
                 translation_bind_group |-> SpriteBatch_translation(1)]>>
              \o batches_with_instance_buffers_shared_translation(Tail(list))

RECURSIVE batches_with_instance_buffers(_)
batches_with_instance_buffers(list) ==
    IF list = <<>>
    THEN <<>>
    ELSE LET batch == Head(list) IN
         IF SpriteBatch_instances(batches[batch]) = <<>>
         THEN batches_with_instance_buffers(Tail(list))
         ELSE <<[batch |-> batch,
                 instance_buffer |-> SpriteBatch_instances(batches[batch]),
                 translation_bind_group |-> SpriteBatch_translation(batch)]>>
              \o batches_with_instance_buffers(Tail(list))

\* The body of the second loop of render: the three bind groups, the vertex
\* buffer and draw(0..6, 0..len) of one BatchInfo.
render_pass_draw(info) ==
    [bind_group_0 |-> SpriteBatch_sheet(batches[info.batch]),
     bind_group_1 |-> scale_uniform_buffer,
     bind_group_2 |-> info.translation_bind_group,
     vertex_buffer |-> info.instance_buffer,
     vertices |-> VERTICES_PER_SPRITE,
     instances |-> Len(SpriteBatch_instances(batches[info.batch]))]

encoder_finish_keeps_draws(infos) ==
    [pipeline |-> render_pipeline.pipeline,
     draws |-> (IF frame = <<>> THEN <<>> ELSE frame[1].draws)
               \o [k \in 1..Len(infos) |-> render_pass_draw(infos[k])]]

\* The command buffer render records: one pass over the BatchInfos in order.
encoder_finish(infos) ==
    [pipeline |-> render_pipeline.pipeline,
     draws |-> [k \in 1..Len(infos) |-> render_pass_draw(infos[k])]]

\* swap_chain.get_next_texture(): a swap chain built for another size than
\* the surface now has may fail to give a texture (`outdated` chooses); one
\* built for the current size gives one.
get_next_texture(outdated) == ~(swap_chain # window_size /\ outdated)

Graphics2D_set_scale_keeps_buffer(new_scale) ==
    [scale |-> new_scale, scale_uniform_buffer |-> scale_uniform_buffer]

Graphics2D_set_scale(new_scale) ==
    [scale |-> new_scale, scale_uniform_buffer |-> new_scale]

Graphics2D_scale == scale

Graphics2D_resized_old_desc(new_size) ==
    [sc_desc |-> [width |-> new_size.width, height |-> new_size.height],
     swap_chain |-> sc_desc]

Graphics2D_resized(new_size) ==
    LET desc == [width |-> new_size.width, height |-> new_size.height] IN
    [sc_desc |-> desc, swap_chain |-> desc]

\* What get_next_texture may answer: it can fail only on a stale swap chain.
Outdated == IF swap_chain # window_size THEN BOOLEAN ELSE {FALSE}

Do_render(list, outdated) ==
    /\ Running
    /\ poll.alive
    /\ DeviceAvailable
    /\ \A k \in 1..Len(list) : Created(list[k])
    /\ LET infos == batches_with_instance_buffers(list) IN
       IF get_next_texture(outdated)
       THEN /\ frame' = <<encoder_finish(infos)>>
            /\ queue' = queue_submit(queue, RenderPass(encoder_finish(infos)))
            /\ panicked' = "none"
       ELSE /\ frame' = frame
            /\ queue' = queue
            /\ panicked' = "no_next_texture"
    /\ hist' = Call("render", 0, 0, list, PollPcs, batches_with_instance_buffers(list))
    /\ UNCHANGED <<batchVars, ctxVars, window_size, rect, poll, sheets>>

Do_set_scale(new_scale) ==
    /\ Running
    /\ LET self == Graphics2D_set_scale(new_scale) IN
        /\ scale' = self.scale
        /\ scale_uniform_buffer' = self.scale_uniform_buffer
    /\ latest_set_scale' = <<new_scale>>
    /\ hist' = Call("set_scale", 0, 0, new_scale, <<>>, <<>>)
    /\ UNCHANGED <<batchVars, sc_desc, swap_chain, render_pipeline, window_size,
                   frame, panicked, rect, poll, gpuVars>>

Do_scale ==
    /\ Running
    /\ hist' = Call("scale", 0, 0, 0, <<>>, <<Graphics2D_scale>>)
    /\ UNCHANGED <<batchVars, ctxVars, window_size, frame, panicked, rect, poll, gpuVars>>

Do_resized(new_size) ==
    /\ Running
    /\ LET self == Graphics2D_resized(new_size) IN
        /\ sc_desc' = self.sc_desc
        /\ swap_chain' = self.swap_chain
    /\ hist' = Call("resized", 0, 0, new_size, <<>>, <<>>)
    /\ UNCHANGED <<batchVars, scale, scale_uniform_buffer, render_pipeline,
                   latest_set_scale, window_size, frame, panicked, rect, poll, gpuVars>>

\* The windowing layer changes the surface's physical size.
WindowResized(size) ==
    /\ Running
    /\ window_size' = size
    /\ hist' = Call("window_resized", 0, 0, size, <<>>, <<>>)
    /\ UNCHANGED <<batchVars, ctxVars, frame, panicked, rect, poll, gpuVars>>

\* -------------------------------------------------------------------- f32
\* An f32 is NaN, an infinity, or a finite value v * 2^-17 * EPSILON^e with
\* e in {0, 1}: the inputs are whole multiples of 2^-17 (e = 0) of at most
\* 24 significant bits, on which f32 subtraction, addition and the product
\* by EPSILON are exact. "big" is a finite value above all of these:
\* f32::MAX and EPSILON * f32::MAX.
NaN == [k |-> "nan", v |-> 0, e |-> 0]
PInf == [k |-> "inf", v |-> 1, e |-> 0]
NInf == [k |-> "inf", v |-> -1, e |-> 0]
F32_MAX == [k |-> "big", v |-> 1, e |-> 0]
Fin(n) == [k |-> "fin", v |-> n, e |-> 0]

\* 1 / (f32::EPSILON * 128.0) = 2^16, and 1.0 in units of 2^-17.
EPSILON_INV == 65536
ONE == 2 * EPSILON_INV
\* const RELTH: f32 = EPSILON, which is 2 units.
RELTH == Fin(ONE \div EPSILON_INV)

\* The class of a non-NaN value in the order of the reals.
Class(a) ==
    CASE a.k = "inf" -> 2 * a.v
      [] a.k = "big" -> 1
      [] OTHER -> 0

\* a < b of two finite values, with their scales.
FinLt(a, b) ==
    CASE a.e = b.e -> a.v < b.v
      [] a.e = 0 /\ b.e = 1 -> a.v <= (b.v - 1) \div EPSILON_INV
      [] OTHER -> a.v \div EPSILON_INV < b.v

f32_lt(a, b) ==
    /\ a.k # "nan"
    /\ b.k # "nan"
    /\ \/ Class(a) < Class(b)
       \/ Class(a) = Class(b) /\ a.k = "fin" /\ FinLt(a, b)

f32_gt(a, b) == f32_lt(b, a)

f32_eq(a, b) == a.k # "nan" /\ b.k # "nan" /\ a = b

Abs(n) == IF n < 0 THEN -n ELSE n

f32_abs(a) ==
    CASE a.k = "inf" -> PInf
      [] a.k = "fin" -> [a EXCEPT !.v = Abs(a.v)]
      [] OTHER -> a

f32_sub(a, b) ==
    CASE a.k = "nan" \/ b.k = "nan" -> NaN
      [] a.k = "inf" /\ b.k = "inf" -> IF a.v = b.v THEN NaN ELSE a
      [] a.k = "inf" -> a
      [] b.k = "inf" -> [b EXCEPT !.v = -b.v]
      [] OTHER -> Fin(a.v - b.v)

f32_add(a, b) ==
    CASE a.k = "nan" \/ b.k = "nan" -> NaN
      [] a.k = "inf" /\ b.k = "inf" -> IF a.v = b.v THEN a ELSE NaN
      [] a.k = "inf" -> a
      [] b.k = "inf" -> b
      [] OTHER -> Fin(a.v + b.v)

\* EPSILON * norm, of a norm that is finite and not negative.
f32_mul_EPSILON(norm) ==
    IF norm.k = "fin" THEN [norm EXCEPT !.e = 1] ELSE norm

\* ------------------------------------------------------------------- Rect
min(a, b) == IF f32_lt(a, b) THEN a ELSE b

max(a, b) == IF f32_gt(a, b) THEN a ELSE b

appx_eq(a, b) ==
    \/ f32_eq(a, b)
    \/ LET diff == f32_abs(f32_sub(a, b))
           norm == min(f32_add(f32_abs(a), f32_abs(b)), F32_MAX)
       IN  f32_lt(diff, max(RELTH, f32_mul_EPSILON(norm)))

\* Option<Rect>: <<>> is None, <<r>> is Some(r).
Rect_new(x1, y1, x2, y2) ==
    IF appx_eq(x1, x2) \/ appx_eq(y1, y2)
    THEN <<>>
    ELSE <<[upper_left |-> <<min(x1, x2), min(y1, y2)>>,
            lower_right |-> <<max(x1, x2), max(y1, y2)>>]>>

\* impl From<[f32; 4]> for Rect: the rect, or the panic of a degenerate one.
Rect_from_array4(arr) ==
    LET r == Rect_new(arr[1], arr[2], arr[3], arr[4]) IN
    IF r # <<>> THEN Outcome(<<>>, r, FALSE) ELSE Outcome(<<>>, <<>>, TRUE)

Rect_from_array2x2_transposed(arr) ==
    Rect_from_array4(<<arr[1][1], arr[2][1], arr[1][2], arr[2][2]>>)

\* impl From<[[f32; 2]; 2]> for Rect
Rect_from_array2x2(arr) ==
    Rect_from_array4(<<arr[1][1], arr[1][2], arr[2][1], arr[2][2]>>)

\* Point::to_array: the point's coordinates as [x, y].
Point_to_array(p) == <<p.x, p.y>>

\* impl From<[Point; 2]> for Rect
Rect_from_points(points) ==
    Rect_from_array2x2(<<Point_to_array(points[1]), Point_to_array(points[2])>>)

\* The coordinates a Rect is built from: around 0 and MaxWhole, apart by less
\* and by more than the two thresholds of appx_eq, a negative one, and the
\* three values that are no finite number.
Offsets == {0, 1, 3, 9 * MaxWhole}
F32s == {Fin(w * ONE + d) : w \in {0, MaxWhole}, d \in Offsets}
            \cup {Fin(-(MaxWhole * ONE)), NaN, PInf, NInf}

RectCall(op, out) ==
    /\ Running
    /\ rect' = [rect EXCEPT !.op = op, !.ret = out.ret]
    /\ panicked' = IF out.panic THEN "degenerate_rect" ELSE "none"
    /\ hist' = Call(op, 0, 0, rect.args, <<>>, out.ret)
    /\ UNCHANGED <<batchVars, ctxVars, window_size, frame, poll, gpuVars>>

Do_Rect_new ==
    LET a == rect.args IN
    RectCall("new", Outcome(<<>>, Rect_new(a[1], a[2], a[3], a[4]), FALSE))

Do_Rect_from_array4 ==
    RectCall("from_array4", Rect_from_array4(rect.args))

Do_Rect_from_array2x2 ==
    LET a == rect.args IN
    RectCall("from_array2x2", Rect_from_array2x2(<<<<a[1], a[2]>>, <<a[3], a[4]>>>>))

Do_Rect_from_points ==
    LET a == rect.args IN
    RectCall("from_points",
             Rect_from_points(<<[x |-> a[1], y |-> a[2]], [x |-> a[3], y |-> a[4]]>>))

\* Rect::upper_left and Rect::lower_right: the corners, as [x, y].
Rect_upper_left(r) == r.upper_left

Rect_lower_right(r) == r.lower_right

\* #[derive(PartialEq)] on Rect: the corners compared by ==, coordinate by
\* coordinate as f32, so that a NaN coordinate is equal to nothing.
Rect_eq(r, s) ==
    /\ f32_eq(r.upper_left[1], s.upper_left[1])
    /\ f32_eq(r.upper_left[2], s.upper_left[2])
    /\ f32_eq(r.lower_right[1], s.lower_right[1])
    /\ f32_eq(r.lower_right[2], s.lower_right[2])

\* The corner array [upper_left.x, upper_left.y, lower_right.x, lower_right.y].
Rect_corner_array(r) ==
    <<Rect_upper_left(r)[1], Rect_upper_left(r)[2],
      Rect_lower_right(r)[1], Rect_lower_right(r)[2]>>

\* Rect::from(corner array of r), of the rect r that the call before
\* returned; hist.pre keeps r, rect.ret becomes the rect built from it.
Do_Rect_round_trip ==
    /\ Running
    /\ rect.op # "round_trip"
    /\ rect.ret # <<>>
    /\ LET r == rect.ret[1]
           out == Rect_from_array4(Rect_corner_array(r))
       IN  /\ rect' = [rect EXCEPT !.op = "round_trip", !.ret = out.ret]
           /\ panicked' = IF out.panic THEN "degenerate_rect" ELSE "none"
           /\ hist' = Call("round_trip", 0, 0, Rect_corner_array(r), <<r>>, out.ret)
    /\ UNCHANGED <<batchVars, ctxVars, window_size, frame, poll, gpuVars>>

\* ------------------------------------------------------------------ Init
Init ==
    /\ batches = [b \in BatchIds |-> SpriteBatch_new(b)]
    /\ translation = [b \in BatchIds |-> ZeroTranslation]
    /\ scale = IdentityScale
    /\ scale_uniform_buffer = IdentityScale
    /\ sc_desc = InitialSize
    /\ swap_chain = InitialSize
    /\ render_pipeline = [pipeline |-> "alpha_over_triangle_list",
                          layouts |-> <<"texture", "scale_uniform", "translation_uniform">>]
    /\ window_size = InitialSize
    /\ frame = <<>>
    /\ panicked = "none"
    /\ hist = Call("init", 0, 0, <<>>, <<>>, <<>>)
    /\ appended = [b \in BatchIds |-> [pure |-> TRUE, seq |-> <<>>]]
    /\ latest_set_scale = <<>>
    /\ rect = [args |-> <<Fin(0), Fin(0), Fin(ONE), Fin(ONE)>>, op |-> "none", ret |-> <<>>]
    /\ poll = [alive |-> TRUE, poll_thread |-> <<>>, threads |-> <<>>]
    /\ queue = [b \in BatchIds |-> Upload(b, TRUE)]
    /\ sheets = BatchIds

\* The SpriteBatch methods, called in any order on any batch.
NextBatch ==
    \/ \E b \in BatchIds, inst \in Instances : Do_add(b, inst)
    \/ \E b \in BatchIds : Do_pop(b)
    \/ \E b \in BatchIds, i \in Indices, inst \in Instances : Do_set(b, i, inst)
    \/ \E b \in BatchIds, i \in Indices : Do_get(b, i)
    \/ \E b \in BatchIds, i \in Indices, inst \in Instances : Do_get_mut(b, i, inst)
    \/ \E b \in BatchIds : Do_last(b)
    \/ \E b \in BatchIds, t \in Translations : Do_set_translation(b, t)

SpecBatch == Init /\ [][NextBatch]_vars

\* Batches are filled, moved and rendered.
NextRender ==
    \/ \E b \in BatchIds, inst \in Instances : Do_add(b, inst)
    \/ \E b \in BatchIds : Do_pop(b)
    \/ \E b \in BatchIds, t \in Translations : Do_set_translation(b, t)
    \/ \E list \in BatchLists, outdated \in Outdated : Do_render(list, outdated)

SpecRender == Init /\ [][NextRender]_vars

\* The context is rescaled and resized between renders of growing batches.
NextContext ==
    \/ \E b \in BatchIds, inst \in Instances : Do_add(b, inst)
    \/ \E s \in Scales : Do_set_scale(s)
    \/ Do_scale
    \/ \E size \in Sizes : Do_resized(size)
    \/ \E size \in Sizes : WindowResized(size)
    \/ \E list \in BatchLists, outdated \in Outdated : Do_render(list, outdated)

SpecContext == Init /\ [][NextContext]_vars

\* Rects are built from any four coordinates, by new and by the conversions.
InitRect ==
    /\ Init!1 /\ Init!2 /\ Init!3 /\ Init!4 /\ Init!5 /\ Init!6 /\ Init!7
    /\ Init!8 /\ Init!9 /\ Init!10 /\ Init!11 /\ Init!12 /\ Init!13
    /\ \E x1 \in F32s, y1 \in F32s, x2 \in F32s, y2 \in F32s :
           rect = [args |-> <<x1, y1, x2, y2>>, op |-> "none", ret |-> <<>>]
    /\ Init!15 /\ Init!16 /\ Init!17

NextRect ==
    \/ Do_Rect_new
    \/ Do_Rect_from_array4
    \/ Do_Rect_from_array2x2
    \/ Do_Rect_from_points
    \/ Do_Rect_round_trip

SpecRect == InitRect /\ [][NextRect]_vars

\* The context of a batch that holds one instance starts its poll thread,
\* renders, is rescaled, signals the thread to stop and is dropped, while
\* every spawned thread runs its loop.
InitPoll ==
    /\ batches = [b \in BatchIds |->
                     IF b = 1 THEN SpriteBatch_add(SpriteBatch_new(b), 1).self
                     ELSE SpriteBatch_new(b)]
    /\ appended = [b \in BatchIds |->
                      [pure |-> TRUE, seq |-> IF b = 1 THEN <<1>> ELSE <<>>]]
    /\ Init!2 /\ Init!3 /\ Init!4 /\ Init!5 /\ Init!6 /\ Init!7 /\ Init!8
    /\ Init!9 /\ Init!10 /\ Init!11 /\ Init!13 /\ Init!14 /\ Init!15
    /\ Init!16 /\ Init!17

NextPoll ==
    \/ \E spawned \in BOOLEAN : Do_ensure_polling(spawned)
    \/ Do_shutdown
    \/ Do_drop
    \/ \E t \in Threads : PollThreadStep(t)
    \/ \E list \in BatchLists, outdated \in Outdated : Do_render(list, outdated)
    \/ \E s \in Scales : Do_set_scale(s)

SpecPoll == InitPoll /\ [][NextPoll]_vars

\* The same, with every spawned thread scheduled fairly and each of its
\* calls (try_recv, device.poll, sleep, yield_now) returning.
SpecPollFair ==
    InitPoll /\ [][NextPoll]_vars /\ \A t \in Threads : WF_vars(PollThreadStep(t))

\* Sheets are loaded, the batches over them filled and rendered, while the
\* device works through the queue.
InitQueue ==
    /\ Init!1 /\ Init!2 /\ Init!3 /\ Init!4 /\ Init!5 /\ Init!6 /\ Init!7
    /\ Init!8 /\ Init!9 /\ Init!10 /\ Init!11 /\ Init!12 /\ Init!13
    /\ Init!14 /\ Init!15
    /\ queue = <<>>
    /\ sheets = {}

NextQueue ==
    \/ \E s \in BatchIds, decoded \in BOOLEAN : Do_from_bytes(s, decoded)
    \/ \E b \in BatchIds, inst \in Instances : Do_add(b, inst)
    \/ \E list \in BatchLists, outdated \in Outdated : Do_render(list, outdated)
    \/ QueueProcess

SpecQueue == InitQueue /\ [][NextQueue]_vars

\* Every call, in any order.
Next == NextBatch \/ NextRender \/ NextContext \/ NextRect \/ NextPoll \/ NextQueue

Spec == Init /\ [][Next]_vars

\* ================================================================ claims

\* C4: from a newly created batch, after N add calls and no other mutation,
\* instances() has length N and holds exactly the added instances in append
\* order; get(i) returns the i-th added instance and last() the N-th (none
\* when N = 0).
C4_AppendOrder ==
    \A b \in BatchIds :
        appended[b].pure =>
            LET seq == appended[b].seq
                N == Len(seq)
            IN  /\ Len(SpriteBatch_instances(batches[b])) = N
                /\ \A k \in 1..N : SpriteBatch_instances(batches[b])[k] = seq[k]
                /\ (hist.op = "get" /\ hist.b = b /\ hist.i < N)
                       => (hist.ret = <<seq[hist.i + 1]>> /\ panicked = "none")
                /\ (hist.op = "last" /\ hist.b = b)
                       => hist.ret = (IF N = 0 THEN <<>> ELSE <<seq[N]>>)

\* Two different instances were added to a new batch and get(1) was called.
C4_Witness ==
    \E b \in BatchIds :
        /\ appended[b].pure
        /\ Len(appended[b].seq) = 2
        /\ appended[b].seq[1] # appended[b].seq[2]
        /\ hist.op = "get" /\ hist.b = b /\ hist.i = 1

\* C5: pop() on a non-empty batch removes exactly the last instance and
\* leaves the earlier ones at their indices; pop() on an empty batch raises
\* no error and leaves instances, sheet and translation unchanged; no pop
\* touches another batch.
C5_Pop ==
    [][hist'.op = "pop" =>
        LET b == hist'.b
            v == batches[b].instances
        IN  /\ panicked' = "none"
            /\ v # <<>> =>
                  /\ Len(batches'[b].instances) = Len(v) - 1
                  /\ \A k \in 1..(Len(v) - 1) : batches'[b].instances[k] = v[k]
            /\ v = <<>> => batches'[b].instances = <<>>
            /\ batches'[b].sheet = batches[b].sheet
            /\ translation' = translation
            /\ \A c \in BatchIds \ {b} : batches'[c] = batches[c]]_vars

\* pop() was called on an empty batch whose translation is not zero.
C5_Witness ==
    /\ hist.op = "pop"
    /\ hist.pre = <<>>
    /\ translation[hist.b] # ZeroTranslation
    /\ panicked = "none"

\* C9: get(i), get_mut(i) and set(i, x) with i >= the instance count end in
\* a fatal indexing error, return nothing and leave the instance sequence as
\* it was (set never grows the batch); with i in range, set(i, x) replaces
\* index i only and keeps the length.
C9_IndexOutOfBounds ==
    hist.op \in {"get", "get_mut", "set"} =>
        LET v == batches[hist.b].instances
            pre == hist.pre
        IN  /\ hist.i >= Len(pre) =>
                  (panicked = "index" /\ v = pre /\ hist.ret = <<>>)
            /\ hist.i < Len(pre) => panicked = "none"
            /\ (hist.op = "set" /\ hist.i < Len(pre)) =>
                  /\ Len(v) = Len(pre)
                  /\ v[hist.i + 1] = hist.x
                  /\ \A k \in 1..Len(pre) : k # hist.i + 1 => v[k] = pre[k]

\* set(i, x) was called with i equal to the length of a non-empty batch.
C9_Witness ==
    /\ hist.op = "set"
    /\ hist.pre # <<>>
    /\ hist.i = Len(hist.pre)
    /\ panicked = "index"

\* ------------------------------------------------- helpers of the claims
\* The list without its k-th element.
RemoveAt(list, k) == SubSeq(list, 1, k - 1) \o SubSeq(list, k + 1, Len(list))

\* The render call that came last returned: its frame is the submitted one.
Rendered == hist.op = "render" /\ panicked = "none"

\* The positions of the rendered list whose batch has instances.
NonEmptyAt(list) == {k \in 1..Len(list) : batches[list[k]].instances # <<>>}

\* The j-th smallest position of a set of positions.
Nth(S, j) == CHOOSE k \in S : Cardinality({m \in S : m <= k}) = j

RECURSIVE SumInstanceCounts(_)
SumInstanceCounts(list) ==
    IF list = <<>> THEN 0
    ELSE Len(batches[Head(list)].instances) + SumInstanceCounts(Tail(list))

RECURSIVE SumDrawn(_)
SumDrawn(draws) ==
    IF draws = <<>> THEN 0
    ELSE (Head(draws).instances * Head(draws).vertices) \div 6
         + SumDrawn(Tail(draws))

\* C1: a batch with zero instances in the list passed to render gets no
\* draw call, no instance buffer, no translation buffer and no bind group,
\* and the frame is the one render would submit for the list without it.
C1_EmptyBatchSkipped ==
    Rendered =>
        LET list == hist.x
            draws == frame[1].draws
        IN  \A k \in 1..Len(list) :
                batches[list[k]].instances = <<>> =>
                    /\ \A j \in 1..Len(draws) :
                           /\ draws[j].bind_group_0 # batches[list[k]].sheet
                           /\ draws[j].instances > 0
                    /\ \A j \in 1..Len(hist.ret) : hist.ret[j].batch # list[k]
                    /\ frame = <<encoder_finish(
                                   batches_with_instance_buffers(RemoveAt(list, k)))>>

\* render was given an empty batch and a batch with instances, and drew one.
C1_Witness ==
    /\ Rendered
    /\ \E k \in 1..Len(hist.x) : batches[hist.x[k]].instances = <<>>
    /\ \E k \in 1..Len(hist.x) : batches[hist.x[k]].instances # <<>>
    /\ Len(frame[1].draws) = 1

\* C2: one render call records exactly one draw per non-empty batch, in the
\* order of the list, each of 6 vertices times the batch's instance count
\* over the batch's instances in append order; the sprites drawn are as many
\* as the instances of the listed batches together.
C2_OneDrawPerBatchInOrder ==
    Rendered =>
        LET list == hist.x
            draws == frame[1].draws
            NE == NonEmptyAt(list)
        IN  /\ Len(frame) = 1
            /\ Len(draws) = Cardinality(NE)
            /\ \A j \in 1..Len(draws) :
                   LET b == list[Nth(NE, j)] IN
                   /\ draws[j].vertices = 6
                   /\ draws[j].instances = Len(batches[b].instances)
                   /\ draws[j].vertex_buffer = batches[b].instances
                   /\ appended[b].pure => draws[j].vertex_buffer = appended[b].seq
                   /\ draws[j].bind_group_0 = batches[b].sheet
            /\ SumDrawn(draws) = SumInstanceCounts(list)

\* render(first, second) with two instances in the first batch and none in
\* the second drew two sprites, both of the first batch.
C2_Witness ==
    /\ Rendered
    /\ Len(hist.x) = 2
    /\ hist.x[1] # hist.x[2]
    /\ Len(batches[hist.x[1]].instances) = 2
    /\ batches[hist.x[2]].instances = <<>>
    /\ SumDrawn(frame[1].draws) = 2
    /\ frame[1].draws[1].bind_group_0 = batches[hist.x[1]].sheet

\* C8: a new batch has translation zero; set_translation leaves the batch's
\* instances as they were; each draw of a render binds the translation its
\* own batch has at that render call.
C8_TranslationPerBatch ==
    /\ hist.op = "init" => \A b \in BatchIds : SpriteBatch_translation(b) = ZeroTranslation
    /\ hist.op = "set_translation" =>
           /\ batches[hist.b].instances = hist.pre
           /\ SpriteBatch_translation(hist.b) = hist.x
    /\ Rendered =>
           LET list == hist.x
               draws == frame[1].draws
               NE == NonEmptyAt(list)
           IN  /\ Len(draws) = Cardinality(NE)
               /\ \A j \in 1..Len(draws) :
                      draws[j].bind_group_2 = translation[list[Nth(NE, j)]]

\* Two batches with instances and different translations were rendered
\* together.
C8_Witness ==
    /\ Rendered
    /\ Len(frame[1].draws) = 2
    /\ frame[1].draws[1].bind_group_2 # frame[1].draws[2].bind_group_2
    /\ frame[1].draws[1].bind_group_2 # ZeroTranslation

\* The scale in force: the argument of the latest set_scale, or the
\* identity scale of construction.
CurrentScale ==
    IF latest_set_scale = <<>> THEN IdentityScale ELSE latest_set_scale[1]

\* C3: every draw of a render uses the scale of the latest set_scale before
\* that render, or [1, 1] when there was none; scale() returns that scale;
\* a set_scale changes nothing of the frame submitted before it.
C3_ScaleAtRender ==
    [][/\ (hist'.op = "render" /\ panicked' = "none") =>
              \A j \in 1..Len(frame'[1].draws) :
                  frame'[1].draws[j].bind_group_1 = CurrentScale'
       /\ hist'.op = "scale" => hist'.ret = <<CurrentScale'>>
       /\ hist'.op = "set_scale" =>
              (frame' = frame /\ scale' = hist'.x /\ CurrentScale' = hist'.x)]_vars

\* A render after set_scale to another scale than [1, 1] drew with the new
\* scale.
C3_Witness ==
    /\ Rendered
    /\ latest_set_scale # <<>>
    /\ latest_set_scale[1] # IdentityScale
    /\ Len(frame[1].draws) >= 1
    /\ frame[1].draws[1].bind_group_1 = latest_set_scale[1]

\* C7: resized(s) sets the swap configuration's width and height to s and
\* rebuilds the swap chain from it, changing nothing else; a second
\* resized(s) leaves the context as the first left it; a render right after
\* resized to the surface's current size gets its next texture.
C7_Resized ==
    [][/\ hist'.op = "resized" =>
              /\ sc_desc'.width = hist'.x.width
              /\ sc_desc'.height = hist'.x.height
              /\ swap_chain' = sc_desc'
              /\ panicked' = "none"
              /\ UNCHANGED <<scale, scale_uniform_buffer, render_pipeline,
                             batches, translation, frame, window_size>>
       /\ (hist.op = "resized" /\ hist'.op = "resized" /\ hist'.x = hist.x) =>
              UNCHANGED <<sc_desc, swap_chain, scale, scale_uniform_buffer,
                          render_pipeline, frame>>
       /\ (hist.op = "resized" /\ hist.x = window_size /\ hist'.op = "render") =>
              (panicked' = "none" /\ Len(frame') = 1)]_vars

\* The context was resized to the surface's new physical size.
C7_Witness ==
    /\ hist.op = "resized"
    /\ hist.x = window_size
    /\ window_size # InitialSize
    /\ swap_chain = window_size
    /\ panicked = "none"

\* a is approximately equal to b by the rule
\* |a - b| < max(RELATIVE_THRESHOLD, EPSILON * (|a| + |b|)), in exact
\* arithmetic on units of 2^-17, where the thresholds are 2 and
\* (|a| + |b|) / 65536; an infinity is equal to itself only, NaN to nothing.
ApproxByRule(a, b) ==
    IF a.k = "fin" /\ b.k = "fin"
    THEN LET diff == IF a.v < b.v THEN b.v - a.v ELSE a.v - b.v
             norm == (IF a.v < 0 THEN -a.v ELSE a.v) + (IF b.v < 0 THEN -b.v ELSE b.v)
             bound == IF norm > 131072 THEN norm ELSE 131072
         IN  diff <= (bound - 1) \div 65536
    ELSE a.k = "inf" /\ a = b

\* C6, as claimed: Rect::new returns none exactly when x1 is approximately
\* x2 or y1 approximately y2 by the rule; otherwise the rect of the smaller
\* and the larger coordinates, whose upper_left is strictly less than its
\* lower_right in both components.
C6_RectNew ==
    rect.op = "new" =>
        LET x1 == rect.args[1]
            y1 == rect.args[2]
            x2 == rect.args[3]
            y2 == rect.args[4]
        IN  /\ (rect.ret = <<>>) <=> (ApproxByRule(x1, x2) \/ ApproxByRule(y1, y2))
            /\ rect.ret # <<>> =>
                  LET r == rect.ret[1] IN
                  /\ r.upper_left = <<min(x1, x2), min(y1, y2)>>
                  /\ r.lower_right = <<max(x1, x2), max(y1, y2)>>
                  /\ f32_lt(r.upper_left[1], r.lower_right[1])
                  /\ f32_lt(r.upper_left[2], r.lower_right[2])

\* What holds of Rect::new: the statement of C6 for coordinates that are
\* not NaN.
RectNewWithoutNaN ==
    (\A k \in 1..4 : rect.args[k].k # "nan") => C6_RectNew

\* C10: each of the three conversions returns the rect Rect::new gives on
\* the same four coordinates when it gives one, and panics, returning no
\* rect, exactly when Rect::new gives none; Rect::new itself never panics.
C10_Conversions ==
    LET a == rect.args
        r == Rect_new(a[1], a[2], a[3], a[4])
    IN  /\ rect.op \in {"from_array4", "from_array2x2", "from_points"} =>
              /\ r # <<>> => (panicked = "none" /\ rect.ret = r)
              /\ r = <<>> => (panicked = "degenerate_rect" /\ rect.ret = <<>>)
        /\ rect.op = "new" => (panicked = "none" /\ rect.ret = r)

\* The conversion from two points panicked on x coordinates that differ
\* but are approximately equal.
C10_Witness ==
    /\ rect.op = "from_points"
    /\ panicked = "degenerate_rect"
    /\ rect.args[1] # rect.args[3]
    /\ rect.args[1].k = "fin" /\ rect.args[3].k = "fin"
    /\ ~appx_eq(rect.args[2], rect.args[4])

\* C11, as claimed: building a rect from the corner array of any rect r
\* does not panic and yields a rect equal to r.
C11_RoundTrip ==
    rect.op = "round_trip" =>
        /\ panicked = "none"
        /\ rect.ret # <<>>
        /\ Rect_eq(rect.ret[1], hist.pre[1])

\* What holds of the round trip: the statement of C11 for the rects built
\* from coordinates that are not NaN.
RoundTripWithoutNaN ==
    (\A k \in 1..4 : rect.args[k].k # "nan") => C11_RoundTrip

\* A rect built from coordinates without NaN went through the round trip.
RoundTripWithoutNaN_Witness ==
    /\ rect.op = "round_trip"
    /\ \A k \in 1..4 : rect.args[k].k # "nan"
    /\ rect.args[1] # rect.ret[1].upper_left[1]

\* C12: at most one poll thread is ever spawned for the context; an
\* ensure_polling call that finds no stored thread spawns one and stores its
\* handle and sender (unless the spawn itself fails), and a call that finds
\* one spawns nothing and leaves the stored handle and sender unchanged.
C12_OnePollThread ==
    [][/\ Len(poll'.threads) <= 1
       /\ hist'.op = "ensure_polling" =>
             /\ poll.poll_thread # <<>> => poll' = poll
             /\ (poll.poll_thread = <<>> /\ hist'.i = 1) =>
                   /\ Len(poll'.threads) = Len(poll.threads) + 1
                   /\ poll'.poll_thread = <<Len(poll'.threads)>>
                   /\ hist'.ret = <<[result |-> "Ok"]>>
             /\ (poll.poll_thread = <<>> /\ hist'.i = 0) =>
                   (poll' = poll /\ hist'.ret = <<[result |-> "Err"]>>)]_vars

\* A later ensure_polling returned while the context's one thread was
\* inside its loop.
C12_Witness ==
    /\ hist.op = "ensure_polling"
    /\ Len(poll.threads) = 1
    /\ poll.poll_thread = <<1>>
    /\ poll.threads[1].pc \in {"poll", "sleep", "yield_now"}

\* C13: once a shutdown signal has been sent on the channel of a poll
\* thread, that thread eventually leaves its loop and terminates, whatever
\* the render thread does, given that the thread is scheduled fairly and
\* each of its calls returns.
C13_ShutdownTerminates ==
    \A t \in Threads :
        (Spawned(t) /\ poll.threads[t].signalled)
            ~> (Spawned(t) /\ poll.threads[t].pc = "done")

\* The thread has left its loop on a shutdown signal, sent while the
\* context was alive, and the render thread has rendered since.
C13_Witness ==
    /\ Spawned(1)
    /\ poll.threads[1].signalled
    /\ poll.threads[1].pc = "done"
    /\ poll.alive
    /\ hist.op = "render"

\* C14, as claimed: a poll thread has left its loop only if a shutdown
\* signal was sent on its channel.
C14_OnlyShutdownStops ==
    \A t \in Threads :
        (Spawned(t) /\ poll.threads[t].pc = "done") => poll.threads[t].signalled

\* C14, amended: a poll thread goes round its loop (try_recv, poll, sleep,
\* yield_now, try_recv) and leaves it only at try_recv, on finding a
\* shutdown signal in its channel or the channel disconnected because the
\* sender was dropped.
C14_StopsOnSignalOrDisconnect ==
    [][\A t \in Threads :
          (Spawned(t) /\ poll'.threads[t] # poll.threads[t]
                      /\ poll'.threads[t].pc # poll.threads[t].pc) =>
              LET th == poll.threads[t]
                  pc == poll'.threads[t].pc
              IN  /\ th.pc = "try_recv" =>
                        IF th.receiver > 0 \/ ~th.sender THEN pc = "done" ELSE pc = "poll"
                  /\ th.pc = "poll" => pc = "sleep"
                  /\ th.pc = "sleep" => pc = "yield_now"
                  /\ th.pc = "yield_now" => pc = "try_recv"
                  /\ th.pc # "done"]_vars

\* The thread has left its loop although no shutdown signal was ever sent:
\* its sender was dropped with the context.
C14_Witness ==
    /\ Spawned(1)
    /\ poll.threads[1].pc = "done"
    /\ ~poll.threads[1].signalled
    /\ ~poll.threads[1].sender

UploadAt(s) ==
    IF \E p \in 1..Len(queue) : queue[p] \in {Upload(s, TRUE), Upload(s, FALSE)}
    THEN CHOOSE p \in 1..Len(queue) : queue[p] \in {Upload(s, TRUE), Upload(s, FALSE)}
    ELSE 0

\* C16: the upload of every sheet from_bytes has returned is in the queue;
\* every render submission comes after the upload of each sheet its draws
\* bind; and, the device processing the queue in order, a render
\* submission that has been processed had the uploads of its sheets
\* processed before it.
C16_UploadBeforeDraw ==
    /\ \A s \in sheets : UploadAt(s) > 0
    /\ \A p \in 1..Len(queue) :
          queue[p].kind = "render" =>
              \A s \in queue[p].sheets :
                  /\ s \in sheets
                  /\ 0 < UploadAt(s) /\ UploadAt(s) < p
                  /\ queue[p].done => queue[UploadAt(s)].done
    /\ \A p \in 1..Len(queue) : \A q \in 1..p : queue[p].done => queue[q].done

\* The device has just processed a render submission whose draws bind both
\* sheets, after the uploads of both.
C16_Witness ==
    /\ Len(queue) = 3
    /\ queue[1].kind = "upload"
    /\ queue[2].kind = "upload"
    /\ queue[3].kind = "render"
    /\ queue[3].done
    /\ queue[3].sheets = sheets
    /\ hist.op = "queue_process"

\* The render submissions in the queue.
RenderSubmissions(q) == {p \in 1..Len(q) : q[p].kind = "render"}

\* C17: a render call that returns has submitted exactly one command
\* buffer, the last of the queue, whose draws are those of the non-empty
\* batches of the list passed to this call as they are now, one each and in
\* order, and nothing of an earlier call; it leaves every batch's instances
\* and translation, the scale and its buffer and the swap configuration
\* unchanged; so the call after a render call with the same list submits
\* the same draws.
C17_RenderRetainsNothing ==
    [][(hist'.op = "render" /\ panicked' = "none") =>
          LET list == hist'.x
              draws == frame'[1].draws
              at == NonEmptyAt(list)
          IN  /\ UNCHANGED <<batches, translation, appended, scale,
                             scale_uniform_buffer, sc_desc, swap_chain,
                             render_pipeline, window_size, sheets>>
              /\ Len(frame') = 1
              /\ RenderSubmissions(queue') = {Len(queue')}
              /\ SelectSeq(queue', LAMBDA e : e.kind = "upload")
                    = SelectSeq(queue, LAMBDA e : e.kind = "upload")
              /\ Len(draws) = Cardinality(at)
              /\ \A j \in 1..Len(draws) :
                    LET b == list[Nth(at, j)] IN
                    draws[j] = [bind_group_0 |-> batches[b].sheet,
                                bind_group_1 |-> scale_uniform_buffer,
                                bind_group_2 |-> translation[b],
                                vertex_buffer |-> batches[b].instances,
                                vertices |-> VERTICES_PER_SPRITE,
                                instances |-> Len(batches[b].instances)]
              /\ (hist.op = "render" /\ hist.x = list) => frame' = frame]_vars

\* render of the first batch alone submitted one draw, of that batch, while
\* the second batch holds other instances.
C17_Witness ==
    /\ Rendered
    /\ hist.x = <<1>>
    /\ Len(frame[1].draws) = 1
    /\ frame[1].draws[1].bind_group_0 = batches[1].sheet
    /\ batches[2].instances # <<>>
    /\ batches[1].instances # batches[2].instances

====
